---- MODULE Spec2Model ----
(***************************************************************************)
(* Consensus discussion platform: the relational store of                  *)
(* supabase/schema.sql (tables, constraints, row level security policies   *)
(* and the thread-provisioning trigger) together with the client handlers  *)
(* of the claim page (ReplySection), the new-claim page and the thread     *)
(* page (ThreadPage / ThreadView).                                         *)
(*                                                                         *)
(* Every RLS policy that grants a write is an operation any holder of the  *)
(* public API key can issue, so each is an action of its own (ClaimsDelete,*)
(* RepliesInsert, RepliesUpdate, ThreadsInsert, ThreadsUpdate,             *)
(* MessagesInsert); the handlers are the particular requests the pages     *)
(* issue, followed by what the handler does with the response.             *)
(***************************************************************************)
EXTENDS Integers, Sequences, FiniteSets, TLC

\* ------------------------------------------------------------------ bounds
MaxClaims == 1
MaxCascadeClaims == 2
MaxReplies == 1
MaxStoreReplies == 2
MaxMessages == 2
MaxStoreMessages == 1
MaxStrLen == 2
MaxShown == 3

\* ---------------------------------------------------------------- universe
Users == {"A", "B", "C"}
NoUser == "anon"
Clients == {"c1"}
NoId == 0

\* Text is a sequence of characters; " " stands for any white space.
Chars == {" ", "a"}
Strings == UNION {[1..n -> Chars] : n \in 0..MaxStrLen}
\* SQL NULL in a text column (no text is a sequence holding this token)
NULL == <<"NULL">>
\* Texts the raw API requests of the model carry
RawTexts == {<<"a">>}

\* CREATE TYPE claim_type
ClaimTypes == {"fact", "value", "policy"}

ReplyStatus == {"pending", "accepted", "rejected"}
\* replies.status has no NOT NULL constraint
NullStatus == "NULL"

VARIABLES
    claims,      \* claims table:   id -> [text, claim_type, author_id]
    replies,     \* replies table:  id -> [parent_claim_id, text, author_id, status, rejection_reason]
    threads,     \* threads table:  id -> [reply_id, claim_owner_id, reply_author_id]
    messages,    \* messages table: id -> [thread_id, sender_id, body, created_at]
    ids,         \* uuid_generate_v4(): number of ids handed out so far, per table
    now,         \* NOW() of the store
    session,     \* client -> authenticated user of the browser session, or NoUser
    page,        \* client -> the claim page as last rendered (props of ReplySection)
    tview,       \* client -> the thread page as last rendered (props/state of ThreadView)
    ui           \* client -> outcome of the last handler or page load of the client

store == <<claims, replies, threads, messages, ids, now>>
vars == <<claims, replies, threads, messages, ids, now, session, page, tview, ui>>

\* ------------------------------------------------------------ text helpers
IsSpace(ch) == ch = " "

RECURSIVE TrimStart(_)
TrimStart(s) ==
    IF s = <<>> THEN <<>>
    ELSE IF IsSpace(Head(s)) THEN TrimStart(Tail(s)) ELSE s

RECURSIVE TrimEnd(_)
TrimEnd(s) ==
    IF s = <<>> THEN <<>>
    ELSE IF IsSpace(s[Len(s)]) THEN TrimEnd(SubSeq(s, 1, Len(s) - 1)) ELSE s

\* String.prototype.trim()
Trim(s) == TrimEnd(TrimStart(s))

Restrict(f, S) == [x \in S |-> f[x]]

\* ------------------------------------------------- row level security (RLS)
\* auth.role() = 'authenticated'
Authenticated(uid) == uid \in Users

\* "Authenticated users can create claims"
ClaimsInsertCheck(uid, row) == Authenticated(uid)

\* "Authors can update their own claims": USING, and (no WITH CHECK given) the
\* check of the updated row as well
ClaimsUpdateUsing(uid, row) == uid = row.author_id

\* "Authors can delete their own claims"
ClaimsDeleteUsing(uid, row) == uid = row.author_id

\* "Replies are viewable by everyone"
RepliesSelectUsing(uid, row) == TRUE

\* "Authenticated users can create replies"
RepliesInsertCheck(uid, row) == Authenticated(uid)

\* "Claim owner can update reply status": USING, and (no WITH CHECK given) the
\* check of the updated row as well
\* Mutant: the claim owner may not update a reply of their own
RepliesUpdateUsing_notOwnReply(uid, row) ==
    \E c \in DOMAIN claims :
        c = row.parent_claim_id /\ claims[c].author_id = uid /\ row.author_id # uid

RepliesUpdateUsing(uid, row) ==
    \E c \in DOMAIN claims : c = row.parent_claim_id /\ claims[c].author_id = uid

\* "Participants can read threads"
ThreadsSelectUsing(uid, row) == uid = row.claim_owner_id \/ uid = row.reply_author_id

\* "Authenticated users can create threads"
ThreadsInsertCheck(uid, row) == Authenticated(uid)

\* "Participants can update threads": USING, and the check of the updated row
ThreadsUpdateUsing(uid, row) == uid = row.claim_owner_id \/ uid = row.reply_author_id

\* No UPDATE and no DELETE policy exists for messages, and no DELETE policy
\* for replies and threads: with row level security enabled such a request
\* sees no row
NoPolicy(uid, row) == FALSE

\* Mutant: a policy that lets the sender delete the message
MessagesDeleteUsing_sender(uid, row) == uid = row.sender_id

MessagesDeleteUsing(uid, row) == NoPolicy(uid, row)

MessagesUpdateUsing(uid, row) == NoPolicy(uid, row)

RepliesDeleteUsing(uid, row) == NoPolicy(uid, row)

ThreadsDeleteUsing(uid, row) == NoPolicy(uid, row)

\* "Participants can read messages"
MessagesSelectUsing(uid, row) ==
    \E t \in DOMAIN threads :
        /\ t = row.thread_id
        /\ (threads[t].claim_owner_id = uid \/ threads[t].reply_author_id = uid)

\* "Participants can send messages"
\* Mutant: the sender test alone, without the participant test
MessagesInsertCheck_senderOnly(uid, row) == uid # NoUser /\ uid = row.sender_id

MessagesInsertCheck(uid, row) ==
    /\ \E t \in DOMAIN threads :
          /\ t = row.thread_id
          /\ (threads[t].claim_owner_id = uid \/ threads[t].reply_author_id = uid)
    /\ row.sender_id = uid

\* ------------------------------------------------------------- constraints
\* CHECK (LENGTH(text) <= 300) and the same test in handleSubmit
MaxClaimText == 300

\* Mutant: the threads table without its UNIQUE(reply_id) constraint
ThreadsUniqueOk_dropped(thr, rid, self) == TRUE

\* threads: UNIQUE(reply_id), for a row about to take reply id rid (self: the
\* row being updated, NoId for an insert)
ThreadsUniqueOk(thr, rid, self) ==
    \A t \in DOMAIN thr : t # self => thr[t].reply_id # rid

\* ------------------------------------------------------------------ trigger
\* handle_new_reply(), AFTER INSERT ON replies FOR EACH ROW: the threads table
\* after the trigger ran for the new reply rid
\* Mutant: the trigger's insert without its ON CONFLICT clause
handle_new_reply_noConflict(thr, tid, rid, row) ==
    thr @@ (tid :> [reply_id        |-> rid,
                    claim_owner_id  |-> claims[row.parent_claim_id].author_id,
                    reply_author_id |-> row.author_id])

handle_new_reply(thr, tid, rid, row) ==
    IF \E t \in DOMAIN thr : thr[t].reply_id = rid
    THEN thr   \* ON CONFLICT (reply_id) DO NOTHING
    ELSE thr @@ (tid :> [reply_id        |-> rid,
                          claim_owner_id  |-> claims[row.parent_claim_id].author_id,
                          reply_author_id |-> row.author_id])

\* ------------------------------------------------------ requests to the store
\* Each request is one transaction. The operators below give its response
\* ("ok" or the error) and, as an action on the store variables, its effect.

\* claims: CHECK (LENGTH(text) <= 300)
ClaimsTextCheck(row) == Len(row.text) <= MaxClaimText

\* INSERT INTO claims
ClaimsInsertResp(uid, row) ==
    IF ~ClaimsInsertCheck(uid, row) THEN "rls"
    ELSE IF ~ClaimsTextCheck(row) THEN "check"
    ELSE "ok"

ClaimsInsertDo(uid, row) ==
    IF ClaimsInsertResp(uid, row) = "ok"
    THEN /\ claims' = claims @@ ((ids.claims + 1) :> row)
         /\ ids' = [ids EXCEPT !.claims = @ + 1]
         /\ UNCHANGED <<replies, threads, messages, now>>
    ELSE UNCHANGED store

\* UPDATE claims SET text, claim_type, author_id WHERE id = cid
ClaimsUpdateResp(uid, cid, row) ==
    IF cid \notin DOMAIN claims \/ ~ClaimsUpdateUsing(uid, claims[cid]) THEN "norows"
    ELSE IF ~ClaimsUpdateUsing(uid, row) THEN "rls"
    ELSE IF ~ClaimsTextCheck(row) THEN "check"
    ELSE "ok"

ClaimsUpdateDo(uid, cid, row) ==
    IF ClaimsUpdateResp(uid, cid, row) = "ok"
    THEN /\ claims' = [claims EXCEPT ![cid] = row]
         /\ UNCHANGED <<replies, threads, messages, ids, now>>
    ELSE UNCHANGED store

\* DELETE FROM claims WHERE id = cid, with the ON DELETE CASCADE of replies,
\* threads and messages. A row the policy hides is not deleted and no error
\* is raised.
ClaimsDeleteRows(uid, cid) ==
    {c \in DOMAIN claims : c = cid /\ ClaimsDeleteUsing(uid, claims[c])}

\* Mutant: the foreign keys without ON DELETE CASCADE
ClaimsDeleteDo_noCascade(uid, cid) ==
    /\ claims' = Restrict(claims, DOMAIN claims \ ClaimsDeleteRows(uid, cid))
    /\ UNCHANGED <<replies, threads, messages, ids, now>>

ClaimsDeleteDo(uid, cid) ==
    LET gone == ClaimsDeleteRows(uid, cid)
        keepR == {r \in DOMAIN replies : replies[r].parent_claim_id \notin gone}
        keepT == {t \in DOMAIN threads : threads[t].reply_id \in keepR}
        keepM == {m \in DOMAIN messages : messages[m].thread_id \in keepT}
    IN  /\ claims' = Restrict(claims, DOMAIN claims \ gone)
        /\ replies' = Restrict(replies, keepR)
        /\ threads' = Restrict(threads, keepT)
        /\ messages' = Restrict(messages, keepM)
        /\ UNCHANGED <<ids, now>>

\* INSERT INTO replies, the trigger on_reply_created included
RepliesInsertResp(uid, row) ==
    IF ~RepliesInsertCheck(uid, row) THEN "rls"
    ELSE IF row.parent_claim_id \notin DOMAIN claims THEN "fk"
    ELSE "ok"

RepliesInsertDo(uid, row) ==
    IF RepliesInsertResp(uid, row) = "ok"
    THEN LET rid == ids.replies + 1
             tid == ids.threads + 1
         IN  /\ replies' = replies @@ (rid :> row)
             /\ threads' = handle_new_reply(threads, tid, rid, row)
             /\ ids' = [ids EXCEPT !.replies = rid, !.threads = tid]
             /\ UNCHANGED <<claims, messages, now>>
    ELSE UNCHANGED store

\* UPDATE replies SET status = st, rejection_reason = rr WHERE id = rid
\* (rr = Keep leaves the column out of the SET list). Rows the policy hides
\* are skipped without an error.
Keep == <<"KEEP">>

RepliesUpdateRows(uid, rid) ==
    {r \in DOMAIN replies : r = rid /\ RepliesUpdateUsing(uid, replies[r])}

RepliesUpdateDo(uid, rid, st, rr) ==
    /\ replies' = [r \in DOMAIN replies |->
                     IF r \in RepliesUpdateRows(uid, rid)
                     THEN [replies[r] EXCEPT
                             !.status = st,
                             !.rejection_reason = IF rr = Keep THEN @ ELSE rr]
                     ELSE replies[r]]
    /\ UNCHANGED <<claims, threads, messages, ids, now>>

\* INSERT INTO threads
ThreadsInsertResp(uid, row) ==
    IF ~ThreadsInsertCheck(uid, row) THEN "rls"
    ELSE IF row.reply_id \notin DOMAIN replies THEN "fk"
    ELSE IF ~ThreadsUniqueOk(threads, row.reply_id, NoId) THEN "unique"
    ELSE "ok"

ThreadsInsertDo(uid, row) ==
    IF ThreadsInsertResp(uid, row) = "ok"
    THEN /\ threads' = threads @@ ((ids.threads + 1) :> row)
         /\ ids' = [ids EXCEPT !.threads = @ + 1]
         /\ UNCHANGED <<claims, replies, messages, now>>
    ELSE UNCHANGED store

\* UPDATE threads SET reply_id, claim_owner_id, reply_author_id WHERE id = tid
ThreadsUpdateResp(uid, tid, row) ==
    IF tid \notin DOMAIN threads \/ ~ThreadsUpdateUsing(uid, threads[tid]) THEN "norows"
    ELSE IF ~ThreadsUpdateUsing(uid, row) THEN "rls"
    ELSE IF row.reply_id \notin DOMAIN replies THEN "fk"
    ELSE IF ~ThreadsUniqueOk(threads, row.reply_id, tid) THEN "unique"
    ELSE "ok"

ThreadsUpdateDo(uid, tid, row) ==
    IF ThreadsUpdateResp(uid, tid, row) = "ok"
    THEN /\ threads' = [threads EXCEPT ![tid] = row]
         /\ UNCHANGED <<claims, replies, messages, ids, now>>
    ELSE UNCHANGED store

\* INSERT INTO messages; created_at DEFAULT NOW(). The clock has moved on by
\* adv ticks since the previous request (0: within the clock's resolution).
MessagesInsertResp(uid, row) ==
    IF row.thread_id \notin DOMAIN threads THEN "rls"
    ELSE IF ~MessagesInsertCheck(uid, row) THEN "rls"
    ELSE "ok"

\* Mutant: a refused insert that leaves its row behind
MessagesInsertDo_storesOnError(uid, row, adv) ==
    /\ messages' = messages @@
         ((ids.messages + 1) :> [thread_id  |-> row.thread_id,
                                 sender_id  |-> row.sender_id,
                                 body       |-> row.body,
                                 created_at |-> now + adv])
    /\ ids' = [ids EXCEPT !.messages = @ + 1]
    /\ now' = now + adv
    /\ UNCHANGED <<claims, replies, threads>>

MessagesInsertDo(uid, row, adv) ==
    IF MessagesInsertResp(uid, row) = "ok"
    THEN /\ messages' = messages @@
              ((ids.messages + 1) :> [thread_id  |-> row.thread_id,
                                      sender_id  |-> row.sender_id,
                                      body       |-> row.body,
                                      created_at |-> now + adv])
         /\ ids' = [ids EXCEPT !.messages = @ + 1]
         /\ now' = now + adv
         /\ UNCHANGED <<claims, replies, threads>>
    ELSE UNCHANGED store

\* UPDATE messages SET body = body WHERE id = mid
MessagesUpdateDo(uid, mid, body) ==
    /\ messages' = [m \in DOMAIN messages |->
                       IF m = mid /\ MessagesUpdateUsing(uid, messages[m])
                       THEN [messages[m] EXCEPT !.body = body]
                       ELSE messages[m]]
    /\ UNCHANGED <<claims, replies, threads, ids, now>>

\* DELETE FROM messages WHERE id = mid
MessagesDeleteDo(uid, mid) ==
    /\ messages' = Restrict(messages,
                       {m \in DOMAIN messages :
                           ~(m = mid /\ MessagesDeleteUsing(uid, messages[m]))})
    /\ UNCHANGED <<claims, replies, threads, ids, now>>

\* DELETE FROM threads WHERE id = tid, with the cascade to its messages
ThreadsDeleteDo(uid, tid) ==
    LET keepT == {t \in DOMAIN threads :
                     ~(t = tid /\ ThreadsDeleteUsing(uid, threads[t]))}
    IN  /\ threads' = Restrict(threads, keepT)
        /\ messages' = Restrict(messages,
                           {m \in DOMAIN messages : messages[m].thread_id \in keepT})
        /\ UNCHANGED <<claims, replies, ids, now>>

\* DELETE FROM replies WHERE id = rid, with the cascade to its thread and the
\* thread's messages
RepliesDeleteDo(uid, rid) ==
    LET keepR == {r \in DOMAIN replies :
                     ~(r = rid /\ RepliesDeleteUsing(uid, replies[r]))}
        keepT == {t \in DOMAIN threads : threads[t].reply_id \in keepR}
    IN  /\ replies' = Restrict(replies, keepR)
        /\ threads' = Restrict(threads, keepT)
        /\ messages' = Restrict(messages,
                           {m \in DOMAIN messages : messages[m].thread_id \in keepT})
        /\ UNCHANGED <<claims, ids, now>>

\* SELECT * FROM replies WHERE parent_claim_id = cid, as uid reads it
RepliesSelect(uid, cid) ==
    {r \in DOMAIN replies :
        replies[r].parent_claim_id = cid /\ RepliesSelectUsing(uid, replies[r])}

\* SELECT * FROM threads WHERE id = tid, as uid reads it
ThreadsSelect(uid, tid) ==
    {t \in DOMAIN threads : t = tid /\ ThreadsSelectUsing(uid, threads[t])}

\* SELECT * FROM messages WHERE thread_id = tid ORDER BY created_at ASC, as uid
\* reads it: every order of the visible rows that is ascending in created_at
\* (rows of equal created_at come in either order)
MessagesVisible(uid, tid) ==
    {m \in DOMAIN messages :
        messages[m].thread_id = tid /\ MessagesSelectUsing(uid, messages[m])}

\* Mutant: the ORDER BY clause dropped
Ascending_unordered(seq) == TRUE

Ascending(seq) ==
    \A i, j \in 1..Len(seq) :
        i < j => messages[seq[i]].created_at <= messages[seq[j]].created_at

MessagesSelect(uid, tid) ==
    LET vis == MessagesVisible(uid, tid)
        n == Cardinality(vis)
    IN  {seq \in [1..n -> vis] :
            /\ \A i, j \in 1..n : i # j => seq[i] # seq[j]
            /\ Ascending(seq)}

\* ------------------------------------------------------------- the clients
NoPage == [claimId |-> NoId, isClaimOwner |-> FALSE, isLoggedIn |-> FALSE,
           pending |-> {}]
\* ThreadView: its props (threadId, messages, currentUserId), its state
\* localMessages and its subscription: whether the channel is subscribed, the
\* last message id that existed when it was (since), the last message id whose
\* INSERT event the channel has delivered (seen) and the message ids whose
\* callback awaits its fetch
NoView == [threadId |-> NoId, currentUserId |-> NoUser, messages |-> <<>>,
           localMessages |-> <<>>, subscribed |-> FALSE, since |-> NoId,
           seen |-> NoId, fetches |-> {}]
\* Outcome of a handler or page load: what ran and how it ended; for a handler
\* that wrote a row, also the id of the row and the text as typed
Outcome(op, result) == [op |-> op, result |-> result, id |-> NoId, text |-> <<>>]
Idle == Outcome("none", "none")

\* ClaimPage's query of the replies of claim cid, in table reps, as uid reads it
RepliesRead(uid, cid, reps) ==
    {r \in DOMAIN reps :
        reps[r].parent_claim_id = cid /\ RepliesSelectUsing(uid, reps[r])}

\* ClaimPage (server component): the props handed to ReplySection that its
\* handlers and buttons read, for claim cid as uid reads tables clms and reps
\* (pending: repliesByStatus.pending); NoPage is notFound()
ClaimPageProps(uid, cid, clms, reps) ==
    IF cid \notin DOMAIN clms THEN NoPage
    ELSE [claimId      |-> cid,
          isClaimOwner |-> uid = clms[cid].author_id,
          isLoggedIn   |-> uid # NoUser,
          pending      |-> {r \in RepliesRead(uid, cid, reps) :
                               reps[r].status = "pending"}]

\* renderReplyGroup: the "Open Discussion" link of reply r on the page of claim
\* cid as rendered for uid (claimOwnerId is the claim's author_id)
DiscussionShown(uid, cid, r) ==
    LET props == ClaimPageProps(uid, cid, claims, replies)
        claimOwnerId == claims[cid].author_id
    IN  \/ props.isClaimOwner
        \/ props.isLoggedIn /\ replies[r].author_id = claimOwnerId

\* Sign in / sign out (header of the root layout): the session cookie of the
\* browser changes, pages already rendered stay as they are
SignIn(c, u) ==
    /\ session[c] # u
    /\ session' = [session EXCEPT ![c] = u]
    /\ UNCHANGED <<claims, replies, threads, messages, ids, now, page, tview, ui>>

SignOut(c) ==
    /\ session[c] # NoUser
    /\ session' = [session EXCEPT ![c] = NoUser]
    /\ UNCHANGED <<claims, replies, threads, messages, ids, now, page, tview, ui>>

\* NewClaimPage.handleSubmit: how it ended, the claim it stored and the text
\* as typed
SubmitOutcome(result, id, text) ==
    [op |-> "submit", result |-> result, id |-> id, text |-> text]

HandleSubmit(c, text, ctype) ==
    /\ ids.claims < MaxClaims
    /\ IF Len(text) > MaxClaimText \/ Len(Trim(text)) = 0
       THEN /\ ui' = [ui EXCEPT ![c] = SubmitOutcome("invalid", NoId, text)]
            /\ UNCHANGED <<claims, replies, threads, messages, ids, now, page, tview>>
       ELSE IF session[c] = NoUser
       THEN /\ ui' = [ui EXCEPT ![c] = SubmitOutcome("login", NoId, text)]
            /\ page' = [page EXCEPT ![c] = NoPage]
            /\ tview' = [tview EXCEPT ![c] = NoView]
            /\ UNCHANGED store
       ELSE LET row == [text |-> Trim(text), claim_type |-> ctype,
                        author_id |-> session[c]]
            IN  /\ ClaimsInsertDo(session[c], row)
                /\ IF ClaimsInsertResp(session[c], row) = "ok"
                   THEN /\ ui' = [ui EXCEPT ![c] = SubmitOutcome("ok", ids.claims + 1, text)]
                        /\ page' = [page EXCEPT ![c] =
                              ClaimPageProps(session[c], ids.claims + 1, claims', replies')]
                        /\ tview' = [tview EXCEPT ![c] = NoView]
                   ELSE /\ ui' = [ui EXCEPT ![c] = SubmitOutcome("error", NoId, text)]
                        /\ UNCHANGED <<page, tview>>
    /\ UNCHANGED session

\* ClaimPage: the browser of client c opens /claim/cid
ClaimPage(c, cid) ==
    /\ page' = [page EXCEPT ![c] = ClaimPageProps(session[c], cid, claims, replies)]
    /\ tview' = [tview EXCEPT ![c] = NoView]
    /\ ui' = [ui EXCEPT ![c] =
                Outcome("claimPage",
                        IF cid \in DOMAIN claims THEN "ok" ELSE "notFound")]
    /\ UNCHANGED <<claims, replies, threads, messages, ids, now, session>>

\* ReplySection.handleReplySubmit
HandleReplySubmit(c, text) ==
    /\ page[c].claimId # NoId
    /\ page[c].isLoggedIn
    /\ ids.replies < MaxReplies
    /\ IF Len(Trim(text)) = 0
       THEN /\ ui' = [ui EXCEPT ![c] = Outcome("reply", "invalid")]
            /\ UNCHANGED <<claims, replies, threads, messages, ids, now, page>>
       ELSE IF session[c] = NoUser
       THEN /\ ui' = [ui EXCEPT ![c] = Outcome("reply", "login")]
            /\ page' = [page EXCEPT ![c] = NoPage]
            /\ UNCHANGED store
       ELSE LET row == [parent_claim_id  |-> page[c].claimId,
                        text             |-> Trim(text),
                        author_id        |-> session[c],
                        status           |-> "pending",
                        rejection_reason |-> NULL]
            IN  /\ RepliesInsertDo(session[c], row)
                /\ IF RepliesInsertResp(session[c], row) = "ok"
                   THEN /\ ui' = [ui EXCEPT ![c] = Outcome("reply", "ok")]
                        /\ page' = [page EXCEPT ![c] =
                              ClaimPageProps(session[c], page[c].claimId, claims', replies')]
                   ELSE /\ ui' = [ui EXCEPT ![c] = Outcome("reply", "error")]
                        /\ UNCHANGED page
    /\ UNCHANGED <<session, tview>>

\* The Accept and Reject buttons of a reply, as renderReplyGroup offers them
ButtonsShown(c, r) ==
    /\ page[c].claimId # NoId
    /\ page[c].isClaimOwner
    /\ r \in page[c].pending

\* ReplySection.handleAcceptReply: the update reports no error, also when the
\* policy hid the row and nothing was updated; router.refresh() follows
HandleAcceptReply(c, r) ==
    /\ ButtonsShown(c, r)
    /\ RepliesUpdateDo(session[c], r, "accepted", Keep)
    /\ ui' = [ui EXCEPT ![c] =
                [op |-> "accept", result |-> "ok", id |-> r, text |-> <<>>]]
    /\ page' = [page EXCEPT ![c] =
                  ClaimPageProps(session[c], page[c].claimId, claims', replies')]
    /\ UNCHANGED <<session, tview>>

\* Mutant: the reason stored as typed, only the empty text becoming null
RejectionReason_untrimmed(reason) == IF reason = <<>> THEN NULL ELSE reason

\* rejectReason.trim() || null
RejectionReason(reason) == IF Trim(reason) = <<>> THEN NULL ELSE Trim(reason)

\* ReplySection.handleRejectReply, for the reply whose Reject button opened
\* the modal and the reason typed into it
HandleRejectReply(c, r, reason) ==
    /\ ButtonsShown(c, r)
    /\ RepliesUpdateDo(session[c], r, "rejected", RejectionReason(reason))
    /\ ui' = [ui EXCEPT ![c] =
                [op |-> "reject", result |-> "ok", id |-> r, text |-> reason]]
    /\ page' = [page EXCEPT ![c] =
                  ClaimPageProps(session[c], page[c].claimId, claims', replies')]
    /\ UNCHANGED <<session, tview>>

\* Mutant: the view is kept when another thread is opened; only its threadId
\* changes, the list and the fetches in flight stay
ThreadPage_sameInstance(c, tid) ==
    /\ session[c] # NoUser
    /\ ThreadsSelect(session[c], tid) # {}
    /\ tview' = [tview EXCEPT ![c].threadId = tid,
                              ![c].currentUserId = session[c],
                              ![c].subscribed = FALSE]
    /\ page' = [page EXCEPT ![c] = NoPage]
    /\ ui' = [ui EXCEPT ![c] = Outcome("threadPage", "ok")]
    /\ UNCHANGED <<claims, replies, threads, messages, ids, now, session>>

\* ThreadPage (server component): the browser of client c opens /thread/tid
ThreadPage(c, tid) ==
    /\ page' = [page EXCEPT ![c] = NoPage]
    /\ IF session[c] = NoUser
       THEN /\ ui' = [ui EXCEPT ![c] = Outcome("threadPage", "login")]
            /\ tview' = [tview EXCEPT ![c] = NoView]
       ELSE IF ThreadsSelect(session[c], tid) = {}
       THEN /\ ui' = [ui EXCEPT ![c] = Outcome("threadPage", "notFound")]
            /\ tview' = [tview EXCEPT ![c] = NoView]
       ELSE IF /\ threads[tid].claim_owner_id # session[c]
               /\ threads[tid].reply_author_id # session[c]
       THEN /\ ui' = [ui EXCEPT ![c] = Outcome("threadPage", "home")]
            /\ tview' = [tview EXCEPT ![c] = NoView]
       ELSE IF RepliesSelect(session[c], replies[threads[tid].reply_id].parent_claim_id)
                  \cap {threads[tid].reply_id} = {}
       THEN /\ ui' = [ui EXCEPT ![c] = Outcome("threadPage", "notFound")]
            /\ tview' = [tview EXCEPT ![c] = NoView]
       ELSE \E seq \in MessagesSelect(session[c], tid) :
            /\ ui' = [ui EXCEPT ![c] = Outcome("threadPage", "ok")]
            /\ tview' = [tview EXCEPT ![c] =
                           [NoView EXCEPT !.threadId = tid,
                                          !.currentUserId = session[c],
                                          !.messages = seq,
                                          !.localMessages = seq]]
    /\ UNCHANGED <<claims, replies, threads, messages, ids, now, session>>

\* ThreadView.handleSendMessage
HandleSendMessage(c, text) ==
    /\ tview[c].threadId # NoId
    /\ ids.messages < MaxMessages
    /\ IF Len(Trim(text)) = 0
       THEN /\ ui' = [ui EXCEPT ![c] = Outcome("send", "empty")]
            /\ UNCHANGED <<claims, replies, threads, messages, ids, now>>
       ELSE LET row == [thread_id |-> tview[c].threadId,
                        sender_id |-> tview[c].currentUserId,
                        body      |-> Trim(text)]
            IN  \E adv \in {0, 1} :
                /\ MessagesInsertDo(session[c], row, adv)
                /\ IF MessagesInsertResp(session[c], row) = "ok"
                   THEN ui' = [ui EXCEPT ![c] =
                                 [op |-> "send", result |-> "ok",
                                  id |-> ids.messages + 1, text |-> text]]
                   ELSE ui' = [ui EXCEPT ![c] = Outcome("send", "alert")]
    /\ UNCHANGED <<session, page, tview>>

\* ThreadView, subscription effect: after the page is mounted the channel
\* thread:<id> is subscribed to the INSERT events of the thread's messages
Subscribe(c) ==
    /\ tview[c].threadId # NoId
    /\ ~tview[c].subscribed
    /\ tview' = [tview EXCEPT ![c].subscribed = TRUE,
                              ![c].since = ids.messages,
                              ![c].seen = ids.messages]
    /\ UNCHANGED <<claims, replies, threads, messages, ids, now, session, page, ui>>

\* The messages of the view's thread whose INSERT event is still to come
Undelivered(c) ==
    {m \in DOMAIN messages :
        m > tview[c].seen /\ messages[m].thread_id = tview[c].threadId}

\* The feed delivers the next INSERT event of the thread, in insertion order;
\* the callback starts its fetch of the full message
FeedDeliver(c) ==
    /\ tview[c].subscribed
    /\ Undelivered(c) # {}
    /\ LET m == CHOOSE x \in Undelivered(c) : \A y \in Undelivered(c) : x <= y
       IN  tview' = [tview EXCEPT ![c].seen = m,
                                  ![c].fetches = @ \cup {m}]
    /\ UNCHANGED <<claims, replies, threads, messages, ids, now, session, page, ui>>

\* The feed delivers again the INSERT event of a message it has delivered to
\* this subscription (delivery is at least once); the callback starts a fetch
\* as for any event
FeedRedeliver(c, m) ==
    /\ tview[c].subscribed
    /\ m \in DOMAIN messages
    /\ messages[m].thread_id = tview[c].threadId
    /\ tview[c].since < m /\ m <= tview[c].seen
    /\ m \notin tview[c].fetches
    /\ tview' = [tview EXCEPT ![c].fetches = @ \cup {m}]
    /\ UNCHANGED <<claims, replies, threads, messages, ids, now, session, page, ui>>

\* Mutant: the callback drops the row it fetched
FetchDone_noAppend(c, m) ==
    /\ m \in tview[c].fetches
    /\ tview' = [tview EXCEPT ![c].fetches = @ \ {m}]
    /\ UNCHANGED <<claims, replies, threads, messages, ids, now, session, page, ui>>

\* The fetch of message m returns to its callback, which appends the row it
\* got (none when the policy hides the row from the session's user)
FetchDone(c, m) ==
    /\ m \in tview[c].fetches
    /\ IF m \in DOMAIN messages /\ MessagesSelectUsing(session[c], messages[m])
       THEN tview' = [tview EXCEPT ![c].fetches = @ \ {m},
                                   ![c].localMessages = Append(@, m)]
       ELSE tview' = [tview EXCEPT ![c].fetches = @ \ {m}]
    /\ UNCHANGED <<claims, replies, threads, messages, ids, now, session, page, ui>>

\* The catch blocks of the five handlers: the one request the handler issued
\* came back with an error that is no refusal by a policy or constraint (the
\* statement was aborted); the message is shown (setError in the forms, alert
\* in accept, reject and send), nothing is refreshed or reset, nothing is
\* issued again
HandlerOps == {"submit", "reply", "accept", "reject", "send"}

RequestFails(c, op) ==
    /\ session[c] # NoUser
    /\ CASE op = "submit" -> TRUE
         [] op = "reply"  -> page[c].claimId # NoId /\ page[c].isLoggedIn
         [] op = "send"   -> tview[c].threadId # NoId
         [] OTHER         -> \E r \in 1..MaxReplies : ButtonsShown(c, r)
    /\ ui' = [ui EXCEPT ![c] =
                Outcome(op, IF op \in {"submit", "reply"} THEN "error" ELSE "alert")]
    /\ UNCHANGED <<claims, replies, threads, messages, ids, now, session, page, tview>>

\* ------------------------------------- requests issued straight to the store
Callers == Users \cup {NoUser}

ClaimsInsert(uid, row) ==
    /\ ClaimsInsertDo(uid, row)
    /\ UNCHANGED <<session, page, tview, ui>>

ClaimsUpdate(uid, cid, row) ==
    /\ ClaimsUpdateDo(uid, cid, row)
    /\ UNCHANGED <<session, page, tview, ui>>

ClaimsDelete(uid, cid) ==
    /\ ClaimsDeleteDo(uid, cid)
    /\ UNCHANGED <<session, page, tview, ui>>

RepliesInsert(uid, row) ==
    /\ RepliesInsertDo(uid, row)
    /\ UNCHANGED <<session, page, tview, ui>>

RepliesUpdate(uid, rid, st, rr) ==
    /\ RepliesUpdateDo(uid, rid, st, rr)
    /\ UNCHANGED <<session, page, tview, ui>>

ThreadsInsert(uid, row) ==
    /\ ThreadsInsertDo(uid, row)
    /\ UNCHANGED <<session, page, tview, ui>>

ThreadsUpdate(uid, tid, row) ==
    /\ ThreadsUpdateDo(uid, tid, row)
    /\ UNCHANGED <<session, page, tview, ui>>

MessagesInsert(uid, row) ==
    /\ \E adv \in {0, 1} : MessagesInsertDo(uid, row, adv)
    /\ UNCHANGED <<session, page, tview, ui>>

MessagesUpdate(uid, mid, body) ==
    /\ MessagesUpdateDo(uid, mid, body)
    /\ UNCHANGED <<session, page, tview, ui>>

MessagesDelete(uid, mid) ==
    /\ MessagesDeleteDo(uid, mid)
    /\ UNCHANGED <<session, page, tview, ui>>

ThreadsDelete(uid, tid) ==
    /\ ThreadsDeleteDo(uid, tid)
    /\ UNCHANGED <<session, page, tview, ui>>

RepliesDelete(uid, rid) ==
    /\ RepliesDeleteDo(uid, rid)
    /\ UNCHANGED <<session, page, tview, ui>>

\* ------------------------------------------------------------ specification
Init ==
    /\ claims = <<>>
    /\ replies = <<>>
    /\ threads = <<>>
    /\ messages = <<>>
    /\ ids = [claims |-> 0, replies |-> 0, threads |-> 0, messages |-> 0]
    /\ now = 0
    /\ session = [c \in Clients |-> NoUser]
    /\ page = [c \in Clients |-> NoPage]
    /\ tview = [c \in Clients |-> NoView]
    /\ ui = [c \in Clients |-> Idle]

\* The rows the raw requests of the model carry (status and rejection_reason
\* of a new reply are left to their column defaults)
ClaimRows == [text : RawTexts, claim_type : {"fact"}, author_id : Users]

ReplyRows ==
    [parent_claim_id : 1..MaxClaims, text : RawTexts, author_id : Users,
     status : {"pending"}, rejection_reason : {NULL}]

\* A text of n characters ch
Rep(ch, n) == [i \in 1..n |-> ch]

\* What is typed into the claim form where the length limit is at stake:
\* blank texts, short texts, and texts of MaxClaimText characters, one less
\* and one more, with and without white space around them
ClaimTexts ==
    {<<>>, <<" ", " ">>, <<" ", "a", " ">>,
     Rep("a", MaxClaimText - 1), Rep("a", MaxClaimText), Rep("a", MaxClaimText + 1),
     <<" ">> \o Rep("a", MaxClaimText - 1),
     Rep("a", MaxClaimText - 1) \o <<" ", " ">>,
     Rep(" ", MaxClaimText + 1)}

\* The claim rows the raw requests carry there
LongClaimRows ==
    [text : {<<>>, <<" ">>, <<"a">>, Rep("a", MaxClaimText), Rep("a", MaxClaimText + 1)},
     claim_type : ClaimTypes, author_id : Users]

\* What the users of the lifecycle and messaging models type into the claim
\* form and the reply form
TypedClaims == {<<>>, <<"a">>}
TypedReplies == {<<" ">>, <<" ", "a">>}

ThreadIds == 1..(MaxStoreReplies + 1)

ThreadRows ==
    [reply_id : 1..MaxStoreReplies, claim_owner_id : Users, reply_author_id : Users]

MessageRows ==
    [thread_id : ThreadIds, sender_id : Users, body : RawTexts]

\* The store alone, under every request its policies admit from any holder
\* of the API key
NextStore ==
    \/ \E uid \in Callers, row \in ClaimRows :
          ids.claims < MaxClaims /\ ClaimsInsert(uid, row)
    \/ \E uid \in Callers, cid \in 1..MaxClaims : ClaimsDelete(uid, cid)
    \/ \E uid \in Callers, row \in ReplyRows :
          ids.replies < MaxStoreReplies /\ RepliesInsert(uid, row)
    \/ \E uid \in Callers, row \in ThreadRows :
          ids.threads < MaxStoreReplies + 1 /\ ThreadsInsert(uid, row)
    \/ \E uid \in Callers, tid \in ThreadIds, row \in ThreadRows :
          ThreadsUpdate(uid, tid, row)
    \/ \E uid \in Callers, row \in MessageRows :
          ids.messages < MaxStoreMessages /\ MessagesInsert(uid, row)

SpecStore == Init /\ [][NextStore]_vars

\* Claims alone: the new-claim form and the requests the policies of claims
\* admit
NextClaims ==
    \/ \E c \in Clients, u \in Users : SignIn(c, u)
    \/ \E c \in Clients : SignOut(c)
    \/ \E c \in Clients, text \in ClaimTexts, ctype \in ClaimTypes :
          HandleSubmit(c, text, ctype)
    \/ \E uid \in Callers, row \in LongClaimRows :
          ids.claims < MaxClaims /\ ClaimsInsert(uid, row)
    \/ \E uid \in Callers, cid \in 1..MaxClaims, row \in LongClaimRows :
          ClaimsUpdate(uid, cid, row)
    \/ \E uid \in Callers, cid \in 1..MaxClaims : ClaimsDelete(uid, cid)

SpecClaims == Init /\ [][NextClaims]_vars

\* Ownership: several claims with their replies, threads and messages, under
\* the deletes and updates any caller can request
CascadeReplyRows ==
    [parent_claim_id : 1..MaxCascadeClaims, text : RawTexts, author_id : Users,
     status : {"pending"}, rejection_reason : {NULL}]

NextCascade ==
    \/ \E uid \in Users, row \in ClaimRows :
          ids.claims < MaxCascadeClaims /\ ClaimsInsert(uid, row)
    \/ \E uid \in Users, row \in CascadeReplyRows :
          ids.replies < MaxStoreReplies /\ RepliesInsert(uid, row)
    \/ \E uid \in Users, row \in MessageRows :
          ids.messages < MaxMessages /\ MessagesInsert(uid, row)
    \/ \E uid \in Callers, cid \in 1..MaxCascadeClaims : ClaimsDelete(uid, cid)
    \/ \E uid \in Callers, rid \in 1..MaxStoreReplies : RepliesDelete(uid, rid)
    \/ \E uid \in Callers, tid \in ThreadIds : ThreadsDelete(uid, tid)
    \/ \E uid \in Callers, mid \in 1..MaxMessages, body \in RawTexts \cup {<<>>} :
          MessagesUpdate(uid, mid, body)
    \/ \E uid \in Callers, mid \in 1..MaxMessages : MessagesDelete(uid, mid)

SpecCascade == Init /\ [][NextCascade]_vars

\* The reply rows an insert through the API can carry: any text, blank ones
\* included, and a status given in place of the column default
AnyReplyRows ==
    [parent_claim_id : 1..MaxClaims, text : {<<>>, <<" ">>, <<"a">>},
     author_id : Users, status : {"pending", "accepted"}, rejection_reason : {NULL}]

\* Reply creation: the reply form of the claim page and the inserts the
\* policy of replies admits
NextReplies ==
    \/ \E c \in Clients, u \in Users : SignIn(c, u)
    \/ \E c \in Clients : SignOut(c)
    \/ \E c \in Clients, text \in TypedClaims : HandleSubmit(c, text, "fact")
    \/ \E c \in Clients, cid \in 1..MaxClaims : ClaimPage(c, cid)
    \/ \E c \in Clients, text \in Strings : HandleReplySubmit(c, text)
    \/ \E uid \in Callers, row \in AnyReplyRows :
          ids.replies < MaxReplies /\ RepliesInsert(uid, row)

SpecReplies == Init /\ [][NextReplies]_vars

\* Reply lifecycle: the claim page, its handlers and the status updates the
\* policy of replies admits
NextLifecycle ==
    \/ \E c \in Clients, u \in Users : SignIn(c, u)
    \/ \E c \in Clients : SignOut(c)
    \/ \E c \in Clients, text \in TypedClaims : HandleSubmit(c, text, "fact")
    \/ \E c \in Clients, cid \in 1..MaxClaims : ClaimPage(c, cid)
    \/ \E c \in Clients, text \in TypedReplies : HandleReplySubmit(c, text)
    \/ \E c \in Clients, r \in 1..MaxReplies : HandleAcceptReply(c, r)
    \/ \E c \in Clients, r \in 1..MaxReplies, reason \in Strings :
          HandleRejectReply(c, r, reason)
    \/ \E uid \in Callers, rid \in 1..MaxReplies,
          st \in ReplyStatus \cup {NullStatus}, rr \in {Keep, NULL} \cup RawTexts :
          RepliesUpdate(uid, rid, st, rr)

SpecLifecycle == Init /\ [][NextLifecycle]_vars

\* Private messaging: the thread page, its send handler and the inserts the
\* policy of messages admits
NextMessages ==
    \/ \E c \in Clients, u \in Users : SignIn(c, u)
    \/ \E c \in Clients : SignOut(c)
    \/ \E c \in Clients, text \in TypedClaims : HandleSubmit(c, text, "fact")
    \/ \E c \in Clients, cid \in 1..MaxClaims : ClaimPage(c, cid)
    \/ \E c \in Clients, text \in TypedReplies : HandleReplySubmit(c, text)
    \/ \E c \in Clients, tid \in ThreadIds : ThreadPage(c, tid)
    \/ \E c \in Clients, text \in Strings : HandleSendMessage(c, text)
    \/ \E uid \in Callers, row \in MessageRows :
          ids.messages < MaxMessages /\ MessagesInsert(uid, row)

SpecMessages == Init /\ [][NextMessages]_vars

\* Failures: the five handlers, the requests that make their one request fail
\* (a claim deleted under an open page, a session changed under an open
\* thread) and the errors of the store itself
NextErrors ==
    \/ \E c \in Clients, u \in Users : SignIn(c, u)
    \/ \E c \in Clients : SignOut(c)
    \/ \E c \in Clients, text \in TypedClaims : HandleSubmit(c, text, "fact")
    \/ \E c \in Clients, cid \in 1..MaxClaims : ClaimPage(c, cid)
    \/ \E c \in Clients, text \in TypedReplies : HandleReplySubmit(c, text)
    \/ \E c \in Clients, r \in 1..MaxReplies : HandleAcceptReply(c, r)
    \/ \E c \in Clients, r \in 1..MaxReplies, reason \in TypedClaims :
          HandleRejectReply(c, r, reason)
    \/ \E c \in Clients, tid \in 1..MaxReplies : ThreadPage(c, tid)
    \/ \E c \in Clients, text \in TypedClaims : HandleSendMessage(c, text)
    \/ \E uid \in Users, cid \in 1..MaxClaims : ClaimsDelete(uid, cid)
    \/ \E c \in Clients, op \in HandlerOps : RequestFails(c, op)

SpecErrors == Init /\ [][NextErrors]_vars

\* The live feed: the thread page with its subscription, the sends of the
\* page's user and the inserts of the other participant
NextFeed ==
    \/ \E c \in Clients, u \in Users : SignIn(c, u)
    \/ \E c \in Clients, text \in TypedClaims : HandleSubmit(c, text, "fact")
    \/ \E c \in Clients, cid \in 1..MaxClaims : ClaimPage(c, cid)
    \/ \E c \in Clients, text \in TypedReplies : HandleReplySubmit(c, text)
    \/ \E c \in Clients, tid \in 1..MaxReplies : ThreadPage(c, tid)
    \/ \E c \in Clients : Subscribe(c)
    \/ \E c \in Clients, text \in RawTexts : HandleSendMessage(c, text)
    \/ \E uid \in Users, row \in MessageRows :
          ids.messages < MaxMessages /\ MessagesInsert(uid, row)
    \/ \E c \in Clients : FeedDeliver(c)
    \/ \E c \in Clients, m \in 1..MaxMessages : FetchDone(c, m)

SpecFeed == Init /\ [][NextFeed]_vars

\* Several threads: one browser moving between the pages of a claim and of
\* its threads while their messages arrive
NextThreads ==
    \/ \E c \in Clients, u \in Users : SignIn(c, u)
    \/ \E uid \in Users, row \in ClaimRows :
          ids.claims < MaxClaims /\ ClaimsInsert(uid, row)
    \/ \E uid \in Users, row \in ReplyRows :
          ids.replies < MaxStoreReplies /\ RepliesInsert(uid, row)
    \/ \E c \in Clients, cid \in 1..MaxClaims : ClaimPage(c, cid)
    \/ \E c \in Clients, tid \in ThreadIds : ThreadPage(c, tid)
    \/ \E c \in Clients : Subscribe(c)
    \/ \E uid \in Users, row \in MessageRows :
          ids.messages < MaxMessages /\ MessagesInsert(uid, row)
    \/ \E c \in Clients : FeedDeliver(c)
    \/ \E c \in Clients, m \in 1..MaxMessages : FetchDone(c, m)

SpecThreads == Init /\ [][NextThreads]_vars

\* The live feed with events delivered more than once
NextRedelivery ==
    \/ \E c \in Clients, u \in Users : SignIn(c, u)
    \/ \E c \in Clients, text \in TypedClaims : HandleSubmit(c, text, "fact")
    \/ \E c \in Clients, cid \in 1..MaxClaims : ClaimPage(c, cid)
    \/ \E c \in Clients, text \in TypedReplies : HandleReplySubmit(c, text)
    \/ \E c \in Clients, tid \in 1..MaxReplies : ThreadPage(c, tid)
    \/ \E c \in Clients : Subscribe(c)
    \/ \E c \in Clients, text \in RawTexts : HandleSendMessage(c, text)
    \/ \E uid \in Users, row \in MessageRows :
          ids.messages < MaxMessages /\ MessagesInsert(uid, row)
    \/ \E c \in Clients : FeedDeliver(c)
    \/ \E c \in Clients, m \in 1..MaxMessages :
          Len(tview[c].localMessages) < MaxShown /\ FeedRedeliver(c, m)
    \/ \E c \in Clients, m \in 1..MaxMessages : FetchDone(c, m)

SpecRedelivery == Init /\ [][NextRedelivery]_vars

\* The feed delivers every event and every fetch returns
FeedFairness ==
    \A c \in Clients :
        /\ WF_vars(FeedDeliver(c))
        /\ \A m \in 1..MaxMessages : WF_vars(FetchDone(c, m))

SpecFeedLive == SpecFeed /\ FeedFairness

\* ================================================================== claims
Participants(t) == {threads[t].claim_owner_id, threads[t].reply_author_id}

ThreadsOf(r) == {t \in DOMAIN threads : threads[t].reply_id = r}

\* C1: in every reachable state each reply has exactly one thread with
\* thread.reply_id = reply.id, and each thread belongs to an existing reply:
\* the reply and its thread appear in one step, and no later request (more
\* replies, thread inserts or updates by any caller, message inserts) adds a
\* second thread for a reply or takes its thread away while the reply remains.
C1_OneThreadPerReply ==
    /\ \A r \in DOMAIN replies : Cardinality(ThreadsOf(r)) = 1
    /\ \A t \in DOMAIN threads : threads[t].reply_id \in DOMAIN replies

\* Two replies exist, and the thread of one has been updated after its
\* creation while its reply remains
C1_Witness ==
    /\ Cardinality(DOMAIN replies) >= 2
    /\ \E t \in DOMAIN threads :
          /\ threads[t].reply_id \in DOMAIN replies
          /\ threads[t].reply_author_id # replies[threads[t].reply_id].author_id

\* C3: a thread is created with claim_owner_id the author of the reply's
\* parent claim and reply_author_id the reply's author, and no step by any
\* caller changes either id of an existing thread.
C3_ParticipantsFixed ==
    [][\A t \in DOMAIN threads' :
          IF t \in DOMAIN threads
          THEN /\ threads'[t].claim_owner_id = threads[t].claim_owner_id
               /\ threads'[t].reply_author_id = threads[t].reply_author_id
          ELSE LET r == threads'[t].reply_id
               IN  /\ r \in DOMAIN replies'
                   /\ threads'[t].claim_owner_id =
                         claims'[replies'[r].parent_claim_id].author_id
                   /\ threads'[t].reply_author_id = replies'[r].author_id]_vars

\* C10: in every reachable state the sender_id of every stored message is one
\* of the two participants of the message's thread, and a message is stored
\* with the sender_id of the caller whose insert stored it.
C10_SenderIsParticipant ==
    /\ [](\A m \in DOMAIN messages :
             /\ messages[m].thread_id \in DOMAIN threads
             /\ messages[m].sender_id \in Participants(messages[m].thread_id))
    /\ [][\A uid \in Callers, row \in MessageRows :
             MessagesInsert(uid, row) =>
                \A m \in DOMAIN messages' \ DOMAIN messages :
                    messages'[m].sender_id = uid]_vars

\* The author of the parent claim of reply r
ClaimAuthorOf(r) == claims[replies[r].parent_claim_id].author_id

\* s holds white space only
Blank(s) == \A i \in 1..Len(s) : s[i] = " "

\* t is s without its leading and trailing white space
IsTrimOf(t, s) ==
    /\ Len(t) <= Len(s)
    /\ t # <<>> => (t[1] # " " /\ t[Len(t)] # " ")
    /\ \E i \in 0..(Len(s) - Len(t)) :
          /\ \A k \in 1..i : s[k] = " "
          /\ \A k \in (i + Len(t) + 1)..Len(s) : s[k] = " "
          /\ t = SubSeq(s, i + 1, i + Len(t))

\* C2: once the status of a reply is accepted or rejected, no step changes it
\* to a different status.
C2_TerminalStatusFinal ==
    [][\A r \in DOMAIN replies \cap DOMAIN replies' :
          replies[r].status \in {"accepted", "rejected"}
             => replies'[r].status = replies[r].status]_vars

\* C5: an accept or a reject issued from a client whose session user is not
\* the author of the reply's parent claim ends with a failure shown to the
\* user and leaves the reply's status and rejection_reason as they were.
C5_NonOwnerForbidden ==
    [][\A c \in Clients, r \in DOMAIN replies :
          (/\ \/ HandleAcceptReply(c, r)
              \/ \E reason \in Strings : HandleRejectReply(c, r, reason)
           /\ session[c] # ClaimAuthorOf(r))
             => /\ ui'[c].result \in {"alert", "error"}
                /\ replies'[r] = replies[r]]_vars

\* C6: every reply is created with status pending; an accept or reject by the
\* parent claim's author leaves it accepted or rejected; the status of a reply
\* is always one of pending, accepted, rejected and never returns to pending.
C6_StatusLifecycle ==
    /\ [](\A r \in DOMAIN replies : replies[r].status \in ReplyStatus)
    /\ [][\A r \in DOMAIN replies' :
             IF r \notin DOMAIN replies
             THEN replies'[r].status = "pending"
             ELSE replies[r].status # "pending" => replies'[r].status # "pending"]_vars
    /\ [][\A c \in Clients, r \in DOMAIN replies :
             (/\ \/ HandleAcceptReply(c, r)
                 \/ \E reason \in Strings : HandleRejectReply(c, r, reason)
              /\ session[c] = ClaimAuthorOf(r))
                => replies'[r].status \in {"accepted", "rejected"}]_vars

\* C7: in every reachable state a reply has a rejection_reason only if its
\* status is rejected.
C7_ReasonOnlyIfRejected ==
    \A r \in DOMAIN replies :
        replies[r].rejection_reason # NULL => replies[r].status = "rejected"

\* C8 as stated: a reject by the parent claim's author sets the status to
\* rejected and stores the reason as given, a blank reason as null, and every
\* reader of the claim then reads the reply.
C8_RejectStoresReason ==
    [][\A c \in Clients, r \in DOMAIN replies, reason \in Strings :
          (HandleRejectReply(c, r, reason) /\ session[c] = ClaimAuthorOf(r))
             => /\ r \in DOMAIN replies'
                /\ replies'[r].status = "rejected"
                /\ replies'[r].rejection_reason =
                      (IF Blank(reason) THEN NULL ELSE reason)
                /\ \A u \in Callers :
                      r \in RepliesRead(u, replies[r].parent_claim_id, replies')]_vars

\* C8 amended: a reject by the parent claim's author sets the status to
\* rejected and stores the reason without its leading and trailing white
\* space, a blank reason as null, and every reader of the claim (any user,
\* signed in or not) then reads the reply with that status and reason.
C8_RejectStoresTrimmedReason ==
    [][\A c \in Clients, r \in DOMAIN replies, reason \in Strings :
          (HandleRejectReply(c, r, reason) /\ session[c] = ClaimAuthorOf(r))
             => /\ r \in DOMAIN replies'
                /\ replies'[r].status = "rejected"
                /\ IF Blank(reason)
                   THEN replies'[r].rejection_reason = NULL
                   ELSE /\ replies'[r].rejection_reason # NULL
                        /\ IsTrimOf(replies'[r].rejection_reason, reason)
                /\ \A u \in Callers :
                      r \in RepliesRead(u, replies[r].parent_claim_id, replies')]_vars

\* The claim's author has rejected a reply with a reason typed with white
\* space around it, and the reply's author is the one signed in afterwards
C8_Witness ==
    \E c \in Clients, r \in DOMAIN replies :
        /\ ui[c].op = "reject" /\ ui[c].id = r
        /\ ui[c].text = <<" ", "a">>
        /\ replies[r].status = "rejected"
        /\ replies[r].rejection_reason = <<"a">>
        /\ session[c] = replies[r].author_id
        /\ session[c] # ClaimAuthorOf(r)

\* C4: for every thread t and every caller a that is neither its claim owner
\* nor its reply author, a reads no message of t from the store, the thread
\* page requested by a ends in the sign-in page, the not-found page or the
\* home page and shows no view of t, and a send by a (from a view left open, or
\* as a raw insert) is answered with an error and leaves the messages unchanged.
C4_NonParticipantForbidden ==
    /\ [](\A t \in DOMAIN threads :
             \A a \in Callers \ Participants(t) : MessagesSelect(a, t) = {<<>>})
    /\ [][\A c \in Clients, t \in DOMAIN threads :
             (ThreadPage(c, t) /\ session[c] \notin Participants(t))
                => /\ ui'[c].result \in {"login", "notFound", "home"}
                   /\ tview'[c] = NoView]_vars
    /\ [][\A c \in Clients, text \in Strings :
             (/\ HandleSendMessage(c, text)
              /\ tview[c].threadId \in DOMAIN threads
              /\ session[c] \notin Participants(tview[c].threadId))
                => /\ messages' = messages
                   /\ ~Blank(text) => ui'[c].result = "alert"]_vars
    /\ [][\A uid \in Callers, row \in MessageRows :
             (/\ MessagesInsert(uid, row)
              /\ row.thread_id \in DOMAIN threads
              /\ uid \notin Participants(row.thread_id))
                => messages' = messages]_vars

\* A user who is no participant of a thread that holds a message has tried to
\* send from a view of that thread and has been shown the error
C4_Witness ==
    \E c \in Clients :
        /\ tview[c].threadId \in DOMAIN threads
        /\ session[c] \in Users \ Participants(tview[c].threadId)
        /\ ui[c].op = "send" /\ ui[c].result = "alert"
        /\ \E m \in DOMAIN messages : messages[m].thread_id = tview[c].threadId

\* The message the client's last successful send stored
SentId(c) == ui[c].id

\* The thread page is loaded by the client right after its successful send,
\* for the thread of that send and by the user who sent
ListsAfterSend(c, tid) ==
    /\ ui[c].op = "send" /\ ui[c].result = "ok"
    /\ tid = tview[c].threadId
    /\ session[c] = tview[c].currentUserId
    /\ ThreadPage(c, tid)

\* C9 as stated: the thread page loaded right after a successful send lists
\* the sent message last, with the body exactly as submitted.
C9_SentIsLastUnmodified ==
    [][\A c \in Clients, tid \in ThreadIds :
          ListsAfterSend(c, tid)
             => LET l == tview'[c].localMessages
                IN  /\ ui'[c].result = "ok"
                    /\ Len(l) > 0
                    /\ l[Len(l)] = SentId(c)
                    /\ messages[SentId(c)].body = ui[c].text]_vars

\* C9 amended: the thread page loaded right after a successful send lists the
\* sent message exactly once, with the submitted body without its leading and
\* trailing white space and the sender as sender_id; the message is the last
\* of the list whenever every other message of the thread has a smaller
\* created_at.
C9_SentIsListedTrimmed ==
    [][\A c \in Clients, tid \in ThreadIds :
          ListsAfterSend(c, tid)
             => LET l == tview'[c].localMessages
                    others == {m \in DOMAIN messages \ {SentId(c)} :
                                  messages[m].thread_id = tid}
                IN  /\ ui'[c].result = "ok"
                    /\ Cardinality({i \in 1..Len(l) : l[i] = SentId(c)}) = 1
                    /\ IsTrimOf(messages[SentId(c)].body, ui[c].text)
                    /\ messages[SentId(c)].sender_id = session[c]
                    /\ messages[SentId(c)].thread_id = tid
                    /\ (\A m \in others :
                           messages[m].created_at < messages[SentId(c)].created_at)
                          => l[Len(l)] = SentId(c)]_vars

\* A participant has sent a body typed with white space around it into a
\* thread that already held a message, and the page loaded next lists both
C9_Witness ==
    \E c \in Clients :
        /\ ui[c].op = "threadPage" /\ ui[c].result = "ok"
        /\ Len(tview[c].localMessages) = 2
        /\ \E i \in 1..2 :
              LET m == tview[c].localMessages[i]
              IN  /\ messages[m].sender_id = session[c]
                  /\ messages[m].body = <<"a">>
        /\ \E i \in 1..2 :
              messages[tview[c].localMessages[i]].sender_id # session[c]

\* The rows an insert into threads can carry for a reply that has a thread
DuplicateThreadRows == {row \in ThreadRows : ThreadsOf(row.reply_id) # {}}

\* C11 as stated: an insert into threads by a signed-in user for a reply that
\* already has a thread is answered as a success.
C11_DuplicateThreadIsSuccess ==
    \A uid \in Users, row \in DuplicateThreadRows :
        ThreadsInsertResp(uid, row) = "ok"

\* C11 amended: for a reply that already has a thread, the provisioning
\* insert of handle_new_reply changes nothing and raises no error (ON CONFLICT
\* DO NOTHING), and an insert into threads issued through the API is refused
\* with the uniqueness error; no step adds a thread row for a reply that had
\* one or changes the id of a reply's thread.
C11_ProvisioningIdempotent ==
    /\ [](\A r \in DOMAIN replies :
             ThreadsOf(r) # {}
                => handle_new_reply(threads, ids.threads + 1, r, replies[r]) = threads)
    /\ [](\A uid \in Users, row \in DuplicateThreadRows :
             ThreadsInsertResp(uid, row) = "unique")
    /\ [][\A t \in DOMAIN threads' \ DOMAIN threads :
             ThreadsOf(threads'[t].reply_id) = {}]_vars

\* A reply has its thread, and an insert into threads for the same reply,
\* naming other participants, is refused
C11_Witness ==
    \E r \in DOMAIN replies, uid \in Users, row \in ThreadRows :
        /\ ThreadsOf(r) # {}
        /\ row.reply_id = r
        /\ \E t \in ThreadsOf(r) :
              row.reply_author_id # threads[t].reply_author_id
        /\ ThreadsInsertResp(uid, row) = "unique"
        /\ ids.threads = ids.replies

\* Every stored claim has a non-blank text of at most MaxClaimText characters
StoredClaimsValid ==
    \A cl \in DOMAIN claims :
        ~Blank(claims[cl].text) /\ Len(claims[cl].text) <= MaxClaimText

\* The new-claim form refuses a text longer than MaxClaimText and a blank
\* text, storing nothing, and for a signed-in user stores any other text
\* (without the white space around it) as one new claim
SubmitValidates ==
    \A c \in Clients, text \in ClaimTexts, ctype \in ClaimTypes :
        (ui'[c].op = "submit" /\ HandleSubmit(c, text, ctype))
           => IF Len(text) > MaxClaimText \/ Blank(text)
              THEN claims' = claims /\ ui'[c].result = "invalid"
              ELSE session[c] \in Users
                      => /\ ui'[c].result = "ok"
                         /\ DOMAIN claims' = DOMAIN claims \cup {ui'[c].id}
                         /\ ui'[c].id \notin DOMAIN claims
                         /\ IsTrimOf(claims'[ui'[c].id].text, text)
                         /\ claims'[ui'[c].id].author_id = session[c]

\* C12: claim creation rejects a text of 301 characters or more and a blank
\* text and inserts nothing then, and accepts a non-blank text of at most 300
\* characters: the form behaves so, and no stored claim is blank or longer
\* than 300 characters.
C12_ClaimTextValidated ==
    /\ [][SubmitValidates]_vars
    /\ []StoredClaimsValid

\* C20: no step changes the text, claim_type or author_id of a stored claim,
\* and a delete issued by a caller who is not the claim's author removes no
\* claim.
C20_ClaimsImmutable ==
    /\ [][\A cl \in DOMAIN claims \cap DOMAIN claims' : claims'[cl] = claims[cl]]_vars
    /\ [][\A uid \in Callers, cid \in DOMAIN claims :
             (ClaimsDelete(uid, cid) /\ uid # claims[cid].author_id)
                => claims' = claims]_vars

\* The thread rows of table thr that belong to reply r
ThreadsIn(thr, r) == {t \in DOMAIN thr : thr[t].reply_id = r}

\* The reply form refuses a blank text, storing no reply and no thread, and
\* for a signed-in user stores any other text (without the white space around
\* it) as one new pending reply of the claim shown, together with its thread
ReplySubmitValidates ==
    \A c \in Clients, text \in Strings :
        (ui'[c].op = "reply" /\ HandleReplySubmit(c, text))
           => IF Blank(text)
              THEN /\ replies' = replies /\ threads' = threads
                   /\ ui'[c].result = "invalid"
              ELSE session[c] \in Users
                      => /\ ui'[c].result = "ok"
                         /\ \E r \in DOMAIN replies' \ DOMAIN replies :
                               /\ DOMAIN replies' = DOMAIN replies \cup {r}
                               /\ replies'[r].parent_claim_id = page[c].claimId
                               /\ replies'[r].status = "pending"
                               /\ IsTrimOf(replies'[r].text, text)
                               /\ Cardinality(ThreadsIn(threads', r)) = 1
                               /\ Cardinality(DOMAIN threads') =
                                     Cardinality(DOMAIN threads) + 1

\* C13: reply creation with a blank text fails and stores neither a reply nor
\* a thread; with a non-blank text it stores one pending reply together with
\* its thread: the reply form behaves so, no stored reply has a blank text,
\* and every reply enters the store pending and with exactly one thread.
C13_ReplyTextValidated ==
    /\ [][ReplySubmitValidates]_vars
    /\ [](\A r \in DOMAIN replies : ~Blank(replies[r].text))
    /\ [][\A r \in DOMAIN replies' \ DOMAIN replies :
             /\ replies'[r].status = "pending"
             /\ Cardinality(ThreadsIn(threads', r)) = 1]_vars

\* C14: a send with a blank body fails: the sender is shown an error and no
\* message is stored; no stored message has a blank body.
C14_EmptyBodyRejected ==
    /\ [][\A c \in Clients, text \in Strings :
             (ui'[c].op = "send" /\ HandleSendMessage(c, text) /\ Blank(text))
                => /\ messages' = messages
                   /\ ui'[c].result \in {"alert", "error"}]_vars
    /\ [](\A m \in DOMAIN messages : ~Blank(messages[m].body))

\* The elements of a sequence
Range(seq) == {seq[i] : i \in 1..Len(seq)}

\* The messages the live feed has added to the list the page was rendered with
Added(c) ==
    SubSeq(tview[c].localMessages, Len(tview[c].messages) + 1,
           Len(tview[c].localMessages))

\* C15: the messages the live feed adds to a subscribed participant's list
\* stand there in the order in which they were inserted into the thread
\* (message ids are handed out in insertion order).
C15_FeedOrderIsInsertionOrder ==
    \A c \in Clients :
        \A i, j \in 1..Len(Added(c)) : i < j => Added(c)[i] < Added(c)[j]

\* C16: a send that succeeds leaves the sent message in the sender's
\* displayed list by the end of the handler, before the feed has delivered
\* anything for it.
C16_OwnMessageFromAck ==
    [][\A c \in Clients, text \in RawTexts :
          (/\ ui'[c].op = "send" /\ ui'[c].result = "ok"
           /\ HandleSendMessage(c, text))
             => ui'[c].id \in Range(tview'[c].localMessages)]_vars

\* Message m was sent by the other participant into the thread of c's view
\* after the view subscribed, and the user of the view is still signed in
SentWhileSubscribed(c, m) ==
    /\ m \in DOMAIN messages
    /\ tview[c].subscribed
    /\ m > tview[c].since
    /\ messages[m].thread_id = tview[c].threadId
    /\ messages[m].sender_id # tview[c].currentUserId
    /\ session[c] = tview[c].currentUserId

\* Message m stands in the list of c's view, or the view is gone (the page
\* was left or loaded again) or its user is no longer the one signed in
ShownOrGone(c, m) ==
    \/ m \in Range(tview[c].localMessages)
    \/ ~tview[c].subscribed
    \/ session[c] # tview[c].currentUserId

\* Message m was sent while c's view is subscribed and its INSERT event or
\* the fetch of its callback is still under way
Awaited(c, m) ==
    /\ SentWhileSubscribed(c, m)
    /\ (m > tview[c].seen \/ m \in tview[c].fetches)

\* Given that the feed delivers, a message sent while the view is subscribed
\* comes to stand in the view's list, for as long as the view stays
FeedShows ==
    \A c \in Clients, m \in 1..MaxMessages :
        Awaited(c, m) ~> ShownOrGone(c, m)

\* The subscribed user of c's view loads the thread page of its thread again
ListsWhileSubscribed(c, tid) ==
    /\ tview[c].subscribed
    /\ tid = tview[c].threadId
    /\ session[c] = tview[c].currentUserId
    /\ ThreadPage(c, tid)

\* C17 as stated: a message the other participant sends while the view is
\* subscribed comes to stand in the view's list, and every listing of the
\* thread by the view's user after the send has the message last.
C17_FeedThenListedLast ==
    /\ FeedShows
    /\ [][\A c \in Clients, tid \in 1..MaxReplies :
             ListsWhileSubscribed(c, tid)
                => \A m \in {x \in DOMAIN messages : SentWhileSubscribed(c, x)} :
                      LET l == tview'[c].localMessages
                      IN  /\ ui'[c].result = "ok"
                          /\ Len(l) > 0
                          /\ l[Len(l)] = m]_vars

\* C17 amended: a message the other participant sends while the view is
\* subscribed comes to stand in the view's list as long as the page stays
\* open under the same session, and every listing of the thread by the view's
\* user after the send holds the message exactly once, in last position
\* whenever every other message of the thread has a smaller created_at.
C17_FeedThenListed ==
    /\ FeedShows
    /\ [][\A c \in Clients, tid \in 1..MaxReplies :
             ListsWhileSubscribed(c, tid)
                => \A m \in {x \in DOMAIN messages : SentWhileSubscribed(c, x)} :
                      LET l == tview'[c].localMessages
                          others == {x \in DOMAIN messages \ {m} :
                                        messages[x].thread_id = tid}
                      IN  /\ ui'[c].result = "ok"
                          /\ Cardinality({i \in 1..Len(l) : l[i] = m}) = 1
                          /\ (\A x \in others :
                                 messages[x].created_at < messages[m].created_at)
                                => l[Len(l)] = m]_vars

\* The feed has added to the list of a subscribed participant, still signed
\* in, a message of the other participant, in a thread that holds two messages
C17_Witness ==
    \E c \in Clients :
        /\ tview[c].subscribed
        /\ session[c] = tview[c].currentUserId
        /\ \E m \in Range(Added(c)) : messages[m].sender_id # tview[c].currentUserId
        /\ Cardinality({x \in DOMAIN messages :
                           messages[x].thread_id = tview[c].threadId}) = 2


\* ------------------------------------------------------------ ownership chain
\* The claim a reply, a thread and a message belong to
ClaimOfReply(r) == replies[r].parent_claim_id

ClaimOfThread(t) == ClaimOfReply(threads[t].reply_id)

ClaimOfMessage(m) == ClaimOfThread(messages[m].thread_id)

\* C18: a stored message keeps its thread_id, sender_id and body in every
\* step of any caller, and it leaves the store only in a step that removes
\* the claim it belongs to, together with the reply and the thread between
\* them (the delete cascade Claim -> Reply -> Thread -> Message).
C18_MessagesImmutable ==
    [][\A m \in DOMAIN messages :
          IF m \in DOMAIN messages'
          THEN /\ messages'[m].thread_id = messages[m].thread_id
               /\ messages'[m].sender_id = messages[m].sender_id
               /\ messages'[m].body = messages[m].body
          ELSE /\ ClaimOfMessage(m) \notin DOMAIN claims'
               /\ threads[messages[m].thread_id].reply_id \notin DOMAIN replies'
               /\ messages[m].thread_id \notin DOMAIN threads']_vars

\* A message is stored, an earlier message has left with its claim, and the
\* sender of the remaining one is a caller whose delete and update requests
\* are among the steps taken
C18_Witness ==
    /\ ids.messages = MaxMessages
    /\ ids.claims = MaxCascadeClaims
    /\ Cardinality(DOMAIN claims) = 1
    /\ DOMAIN messages = {MaxMessages}
    /\ messages[MaxMessages].sender_id \in Users

\* Every reply points to a stored claim, every thread to a stored reply,
\* every message to a stored thread
ReferencesResolve ==
    /\ \A r \in DOMAIN replies : replies[r].parent_claim_id \in DOMAIN claims
    /\ \A t \in DOMAIN threads : threads[t].reply_id \in DOMAIN replies
    /\ \A m \in DOMAIN messages : messages[m].thread_id \in DOMAIN threads

\* A step removes exactly what belongs to the claims it removes
CascadeExact ==
    /\ \A r \in DOMAIN replies :
          r \in DOMAIN replies' <=> ClaimOfReply(r) \in DOMAIN claims'
    /\ \A t \in DOMAIN threads :
          t \in DOMAIN threads' <=> ClaimOfThread(t) \in DOMAIN claims'
    /\ \A m \in DOMAIN messages :
          m \in DOMAIN messages' <=> ClaimOfMessage(m) \in DOMAIN claims'

\* C19: references always resolve, and the step that deletes a claim removes
\* all of its replies, their threads and those threads' messages, and no
\* reply, thread or message of another claim.
C19_CascadeKeepsIntegrity ==
    /\ []ReferencesResolve
    /\ [][CascadeExact]_vars

\* One claim was deleted with its reply and thread while the other claim,
\* its reply, its thread and a message in it are still stored
C19_Witness ==
    /\ ids.claims = MaxCascadeClaims
    /\ ids.replies = MaxStoreReplies
    /\ Cardinality(DOMAIN claims) = 1
    /\ Cardinality(DOMAIN replies) = 1
    /\ Cardinality(DOMAIN threads) = 1
    /\ \E m \in DOMAIN messages : ClaimOfMessage(m) \in DOMAIN claims
    /\ \E r \in 1..MaxStoreReplies : r \notin DOMAIN replies

\* ------------------------------------------------------------- attribution
\* The store accepts a create only from the identity the row names as author
InsertsAttributed ==
    /\ \A uid \in Callers, row \in ClaimRows :
          ClaimsInsertResp(uid, row) = "ok" => uid # NoUser /\ row.author_id = uid
    /\ \A uid \in Callers, row \in AnyReplyRows :
          RepliesInsertResp(uid, row) = "ok" => uid # NoUser /\ row.author_id = uid

\* A form submitted without a session ends at the login page and stores nothing
AnonymousSubmitStoresNothing ==
    \A c \in Clients :
        (ui'[c] # ui[c] /\ ui'[c].op \in {"submit", "reply"} /\ session[c] = NoUser)
            => /\ ui'[c].result \in {"invalid", "login"}
               /\ UNCHANGED store

\* A row the form stored names the session's user as its author
FormAttributes ==
    \A c \in Clients :
        /\ \A cl \in DOMAIN claims' \ DOMAIN claims :
              ui'[c].op = "submit" /\ ui'[c].id = cl /\ ui[c] # ui'[c]
                  => claims'[cl].author_id = session[c]
        /\ \A r \in DOMAIN replies' \ DOMAIN replies :
              ui'[c].op = "reply" /\ ui'[c].result = "ok" /\ ui[c] # ui'[c]
                  => replies'[r].author_id = session[c]

\* C21: claims and replies are created only by an authenticated actor and
\* carry that actor as author_id: a create without an authenticated identity
\* inserts nothing, and a create that the store accepts names its caller as
\* the author.
C21_WritesAttributed ==
    /\ []InsertsAttributed
    /\ [][AnonymousSubmitStoresNothing /\ FormAttributes]_vars


\* ---------------------------------------------------------------- failures
\* The handler of client c ended in this step by reporting a failure
Failed(c) == ui'[c] # ui[c] /\ ui'[c].result \in {"error", "alert"}

\* A create or send that ends without a failure report has stored its row
Surfaced(c) ==
    (ui'[c] # ui[c] /\ ui'[c].result = "ok")
        => /\ ui'[c].op = "submit" => DOMAIN claims' # DOMAIN claims
           /\ ui'[c].op = "reply" => DOMAIN replies' # DOMAIN replies
           /\ ui'[c].op = "send" => DOMAIN messages' # DOMAIN messages

\* C22: a handler whose request the store answers with an error reports the
\* failure, and that interaction leaves the stored state as it was: the one
\* request wrote nothing and the handler issues no other.
C22_AttemptOnceSurfaced ==
    [][\A c \in Clients : (Failed(c) => UNCHANGED store) /\ Surfaced(c)]_vars

\* A reply form was submitted on a page whose claim is gone, or a message was
\* sent under a changed session: the request was refused and the failure shown
C22_Witness ==
    \E c \in Clients :
        /\ ui[c].result \in {"error", "alert"}
        /\ ui[c].op \in {"reply", "send"}
        /\ \/ page[c].claimId # NoId /\ page[c].claimId \notin DOMAIN claims
           \/ /\ tview[c].threadId # NoId
              /\ tview[c].currentUserId # session[c]

\* ------------------------------------------------------------- self-reply
\* The user of client c is the author of the claim on the page shown
OwnsShownClaim(c) ==
    /\ page[c].claimId \in DOMAIN claims
    /\ claims[page[c].claimId].author_id = session[c]

\* The owner's reply to the own claim is stored as a pending reply with one
\* thread whose two participants are the owner
OwnReplyCreated ==
    \A c \in Clients, text \in TypedReplies :
        (ui'[c].op = "reply" /\ OwnsShownClaim(c) /\ HandleReplySubmit(c, text)
            /\ Len(Trim(text)) > 0)
        => LET rid == ids.replies + 1
           IN  /\ ui'[c].result = "ok"
               /\ DOMAIN replies' = DOMAIN replies \cup {rid}
               /\ rid \notin DOMAIN replies
               /\ replies'[rid].status = "pending"
               /\ replies'[rid].author_id = session[c]
               /\ replies'[rid].parent_claim_id = page[c].claimId
               /\ Cardinality(ThreadsIn(threads', rid)) = 1
               /\ \A t \in ThreadsIn(threads', rid) :
                     /\ threads'[t].claim_owner_id = session[c]
                     /\ threads'[t].reply_author_id = session[c]

\* The owner's accept or reject of the own reply takes effect
OwnReplyDecided ==
    \A c \in Clients, r \in DOMAIN replies :
        (OwnsShownClaim(c) /\ replies[r].author_id = session[c]
            /\ replies[r].parent_claim_id = page[c].claimId)
        => /\ (ui'[c].op = "accept" /\ HandleAcceptReply(c, r))
                => replies'[r].status = "accepted"
           /\ \A reason \in Strings :
                (ui'[c].op = "reject" /\ HandleRejectReply(c, r, reason))
                    => replies'[r].status = "rejected"

\* C23: the author of a claim can reply to it: the reply is stored pending
\* with exactly one thread whose claim_owner_id and reply_author_id are both
\* that author, who can then accept or reject it.
C23_OwnerMayReplyToSelf == [][OwnReplyCreated /\ OwnReplyDecided]_vars

\* The owner has replied to the own claim and then decided on that reply
C23_Witness ==
    \E c \in Clients, r \in DOMAIN replies :
        /\ replies[r].author_id = ClaimAuthorOf(r)
        /\ \E t \in ThreadsOf(r) : Participants(t) = {replies[r].author_id}
        /\ ui[c].op \in {"accept", "reject"}
        /\ ui[c].id = r
        /\ session[c] = replies[r].author_id
        /\ replies[r].status \in {"accepted", "rejected"}

\* ------------------------------------------------------- discussion link
\* C24: on a claim page the "Open Discussion" link of a reply is offered
\* exactly to a logged-in viewer who is the claim's owner or the reply's
\* author, and to nobody else.
C24_LinkForParticipantsOnly ==
    \A uid \in Callers, r \in DOMAIN replies :
        DiscussionShown(uid, replies[r].parent_claim_id, r)
            <=> (uid # NoUser /\ uid \in {ClaimAuthorOf(r), replies[r].author_id})


\* -------------------------------------------------------------- feed list
\* C25: the displayed list of a thread view holds no message id twice, also
\* when the feed delivers an INSERT event again.
C25_NoDuplicateInList ==
    \A c \in Clients :
        \A i, j \in 1..Len(tview[c].localMessages) :
            tview[c].localMessages[i] = tview[c].localMessages[j] => i = j

\* The messages of the view's thread that the store shows to the view's user
Readable(c) ==
    {m \in DOMAIN messages :
        /\ messages[m].thread_id = tview[c].threadId
        /\ MessagesSelectUsing(tview[c].currentUserId, messages[m])}

\* The subscription of client c is active, the feed has delivered every event
\* it holds for it and every fetch has returned, all under the user the page
\* was rendered for
FeedSettled(c) ==
    /\ tview[c].threadId # NoId
    /\ tview[c].subscribed
    /\ session[c] = tview[c].currentUserId
    /\ Undelivered(c) = {}
    /\ tview[c].fetches = {}

\* C26: no message of the thread is missing from an open thread view: once the
\* feed has nothing left to deliver, every message committed to the thread,
\* also one committed between the page's fetch of the list and the start of
\* the subscription, is in the displayed list.
C26_NoMessageMissing ==
    \A c \in Clients : FeedSettled(c) => Readable(c) \subseteq Range(tview[c].localMessages)


\* C27: every message in the displayed list of a thread view belongs to the
\* thread the view shows, also when another thread is opened or the
\* subscription is closed while the fetch of a feed event has not returned.
C27_ListOfCurrentThread ==
    \A c \in Clients :
        \A i \in 1..Len(tview[c].localMessages) :
            messages[tview[c].localMessages[i]].thread_id = tview[c].threadId

\* A subscribed view shows messages of its thread while the store holds
\* messages of another thread the view's user takes part in
C27_Witness ==
    \E c \in Clients :
        /\ tview[c].threadId # NoId
        /\ tview[c].localMessages # <<>>
        /\ tview[c].subscribed
        /\ \E m \in DOMAIN messages : messages[m].thread_id # tview[c].threadId
        /\ \E t \in DOMAIN threads :
              t # tview[c].threadId /\ session[c] \in Participants(t)

====
